---- MODULE Spec2Model ----
(***************************************************************************)
(* Model of apps/proxy/models.py: the proxy node catalog, the per-node     *)
(* shadowsocks config generation, relay rules, the node heartbeat log and  *)
(* the user traffic log.                                                    *)
(*                                                                         *)
(* Python values are modelled as follows.                                  *)
(*   - None / a missing related row is the empty sequence <<>>, a present  *)
(*     value v is <<v>>.                                                    *)
(*   - a dict is a record; the empty dict {} is the empty function <<>>.   *)
(*   - a call's outcome is [raised |-> exception name or "", value |-> v]. *)
(*   - DecimalField(decimal_places=1) values are integers in tenths.       *)
(***************************************************************************)
EXTENDS Integers, Sequences, FiniteSets, TLC

\* ------------------------------------------------------------------------
\* Bounds of the model
\* ------------------------------------------------------------------------
MaxLevel == 2          \* node levels range over 0..MaxLevel
MaxTraffic == 12       \* cap on a user's upload+download counters
MaxTime == 3           \* the clock runs over 0..MaxTime
MaxLogs == 2           \* cap on the number of NodeOnlineLog rows
MaxCount == 2          \* online_user_count of a heartbeat is in 1..MaxCount
MaxRows == 2           \* cap on the number of UserTrafficLog rows
MaxDelta == 1          \* traffic deltas of a report are in 0..MaxDelta
NODE_TIME_OUT == 2     \* c.NODE_TIME_OUT, seconds (scaled to model ticks)

NodeIds == {1, 2}
UserIds == {1, 2}
RelayIds == {1, 2}
RuleIds == {1, 2, 3}
Callers == {1, 2}
ConfigNodes == {1}     \* the nodes whose level, type and SSConfig the admin edits

None == <<>>
Some(v) == <<v>>

\* ------------------------------------------------------------------------
\* ProxyNode, SSConfig, User
\* ------------------------------------------------------------------------
NODE_TYPE_SS == "ss"
NODE_TYPE_VLESS == "vless"
NODE_TYPE_TROJAN == "trojan"
NODE_CHOICES == {NODE_TYPE_SS, NODE_TYPE_VLESS, NODE_TYPE_TROJAN}

Quota == 10            \* total_traffic of the modelled users
TrafficSteps == {<<3, 0>>, <<0, 7>>} \* (upload, download) increments the user feed applies to the counters
SharedPort == 8000     \* a non-zero multi_user_port
MultiUserPorts == {None, Some(0), Some(SharedPort)}
DEFAULT_METHOD == "aes-256-gcm"   \* settings.DEFAULT_METHOD, the default of SSConfig.method
Names == {"a", "b"}
Scales == {5, 10, 15}   \* enlarge_scale in tenths: 0.5, 1.0, 1.5

VARIABLES
    proxy_nodes,      \* ProxyNode rows: id -> [name, enable, node_type, level, enlarge_scale]
    ss_configs,       \* SSConfig rows: id -> None or Some([method, multi_user_port])
    users,            \* User rows: id -> [id, level, ss_port, ss_password, traffic counters]
    proxy_configs,    \* outcome of the last get_proxy_configs call on the current snapshot
    relay_nodes,      \* RelayNode rows: id -> [name, enable]
    relay_rules,      \* RelayRule rows: id -> [relay_node, proxy_node]
    rule_read,        \* last read of RelayRule.enable / RelayRule.remark on the snapshot
    now,              \* utils.get_current_datetime()
    online_logs,      \* NodeOnlineLog rows, in insertion order
    online_query,     \* outcome of the last liveness query on the current snapshot
    traffic_logs,     \* UserTrafficLog rows, in insertion order
    callers,          \* concurrent reporters: id -> None or Some(pending report)
    ingested          \* history: (user, node) -> sum of the deltas handed to the log

vars == <<proxy_nodes, ss_configs, users, proxy_configs, relay_nodes, relay_rules,
          rule_read, now, online_logs, online_query, traffic_logs, callers, ingested>>

catalogVars == <<proxy_nodes, ss_configs, users>>
relayVars == <<relay_nodes, relay_rules>>
liveVars == <<now, online_logs>>
trafficVars == <<traffic_logs, callers, ingested>>
readVars == <<proxy_configs, rule_read, online_query>>

NoCall == [op |-> "none"]

\* Every read result is the result on the current snapshot: a write to the
\* tables discards the results that were computed before it.
ResetReads == /\ proxy_configs' = NoCall
              /\ rule_read' = NoCall
              /\ online_query' = NoCall

Returned(v) == [raised |-> "", value |-> v]
Raised(e) == [raised |-> e, value |-> None]

\* User.objects.filter(level__gte=self.level).values(...): the rows in id order.
RECURSIVE UserFeed(_, _)
UserFeed(level, ids) ==
    IF ids = {} THEN <<>>
    ELSE LET i == CHOOSE x \in ids : \A y \in ids : x <= y
         IN (IF users[i].level >= level THEN <<users[i]>> ELSE <<>>)
            \o UserFeed(level, ids \ {i})

\* Python truthiness of an optional integer: None and 0 are falsy.
Truthy(opt) == opt # None /\ opt[1] # 0

\* Line 87-89: the enable flag of one user's entry.
\* (a flag that still counts a user at the quota as enabled)
entry_enable_ge(self, user) ==
    self.enable /\ user.total_traffic >= (user.download_traffic + user.upload_traffic)

entry_enable(self, user) ==
    self.enable /\ user.total_traffic > (user.download_traffic + user.upload_traffic)

\* Line 90-94: the port of one user's entry.  `user` is a dict (a .values()
\* row), so the attribute access user.ss_port of line 94 raises AttributeError.
entry_port(ss_config, user) ==
    IF Truthy(ss_config.multi_user_port)
    THEN Returned(ss_config.multi_user_port[1])
    ELSE Raised("AttributeError")

ConfigEntry(self, ss_config, user, port) ==
    [user_id |-> user.id, port |-> port, password |-> user.ss_password,
     enable |-> entry_enable(self, user), method |-> ss_config.method]

\* A loop that leaves out the users whose entry would not be enabled.
RECURSIVE ss_node_config_loop_skip(_, _, _, _)
ss_node_config_loop_skip(self, ss_config, feed, configs) ==
    IF feed = <<>> THEN Returned(configs)
    ELSE LET user == Head(feed)
             port == entry_port(ss_config, user)
         IN IF port.raised # "" THEN port
            ELSE ss_node_config_loop_skip(self, ss_config, Tail(feed),
                     IF entry_enable(self, user)
                     THEN [users |-> Append(configs.users,
                               ConfigEntry(self, ss_config, user, port.value))]
                     ELSE configs)

\* The for loop of get_ss_node_config, line 79-103, over the remaining rows
\* of the queryset; an exception ends the call.
RECURSIVE ss_node_config_loop(_, _, _, _)
ss_node_config_loop(self, ss_config, feed, configs) ==
    IF feed = <<>> THEN Returned(configs)
    ELSE LET user == Head(feed)
             port == entry_port(ss_config, user)
         IN IF port.raised # "" THEN port
            ELSE ss_node_config_loop(self, ss_config, Tail(feed),
                     [users |-> Append(configs.users,
                          ConfigEntry(self, ss_config, user, port.value))])

get_ss_node_config(n) ==
    IF ss_configs[n] = None THEN Raised("RelatedObjectDoesNotExist")
    ELSE ss_node_config_loop(proxy_nodes[n], ss_configs[n][1],
                             UserFeed(proxy_nodes[n].level, UserIds),
                             [users |-> <<>>])

\* A dispatch that answers a node of another type like an ss node without users.
get_proxy_configs_users(n) ==
    IF proxy_nodes[n].node_type = NODE_TYPE_SS
    THEN get_ss_node_config(n)
    ELSE Returned([users |-> <<>>])

get_proxy_configs(n) ==
    IF proxy_nodes[n].node_type = NODE_TYPE_SS
    THEN get_ss_node_config(n)
    ELSE Returned(<<>>)

\* ------------------------------------------------------------------------
\* Writes to the catalog (admin layer / user feed)
\* ------------------------------------------------------------------------
SetNodeEnable(n) ==
    /\ proxy_nodes' = [proxy_nodes EXCEPT ![n].enable = ~@]
    /\ ResetReads
    /\ UNCHANGED <<ss_configs, users, relayVars, liveVars, trafficVars>>

SetNodeLevel(n, l) ==
    /\ proxy_nodes[n].level # l
    /\ proxy_nodes' = [proxy_nodes EXCEPT ![n].level = l]
    /\ ResetReads
    /\ UNCHANGED <<ss_configs, users, relayVars, liveVars, trafficVars>>

SetNodeType(n, t) ==
    /\ proxy_nodes[n].node_type # t
    /\ proxy_nodes' = [proxy_nodes EXCEPT ![n].node_type = t]
    /\ ResetReads
    /\ UNCHANGED <<ss_configs, users, relayVars, liveVars, trafficVars>>

SaveSSConfig(n, p) ==
    /\ ss_configs[n] # Some([method |-> DEFAULT_METHOD, multi_user_port |-> p])
    /\ ss_configs' = [ss_configs EXCEPT
                        ![n] = Some([method |-> DEFAULT_METHOD, multi_user_port |-> p])]
    /\ ResetReads
    /\ UNCHANGED <<proxy_nodes, users, relayVars, liveVars, trafficVars>>

DeleteSSConfig(n) ==
    /\ ss_configs[n] # None
    /\ ss_configs' = [ss_configs EXCEPT ![n] = None]
    /\ ResetReads
    /\ UNCHANGED <<proxy_nodes, users, relayVars, liveVars, trafficVars>>

UserTraffic(u, up, down) ==
    /\ users[u].upload_traffic + users[u].download_traffic + up + down <= MaxTraffic
    /\ users' = [users EXCEPT ![u].upload_traffic = @ + up,
                              ![u].download_traffic = @ + down]
    /\ ResetReads
    /\ UNCHANGED <<proxy_nodes, ss_configs, relayVars, liveVars, trafficVars>>

\* A node pulls its config.
GetProxyConfigs(n) ==
    /\ proxy_configs' = [op |-> "get_proxy_configs", node |-> n,
                         outcome |-> get_proxy_configs(n)]
    /\ UNCHANGED <<catalogVars, relayVars, liveVars, trafficVars, rule_read, online_query>>

\* ------------------------------------------------------------------------
\* RelayNode, RelayRule
\* ------------------------------------------------------------------------
RelayRow(r) == relay_nodes[relay_rules[r].relay_node]
ProxyRow(r) == proxy_nodes[relay_rules[r].proxy_node]

\* A rule that follows its proxy node only.
RelayRule_enable_proxy_only(r) == ProxyRow(r).enable

\* RelayRule.enable (a property: evaluated on every read).
RelayRule_enable(r) == RelayRow(r).enable /\ ProxyRow(r).enable

\* str() of a Decimal with one decimal place, from its value in tenths.
DecimalStr(d) == ToString(d \div 10) \o "." \o ToString(d % 10)

DecimalOne == 10       \* Decimal(1.0), in tenths
Bei == "bei"           \* the suffix character U+500D of line 251, in ASCII

\* A remark that adds the suffix only for a multiplier above 1.0.
RelayRule_remark_gt(r) ==
    LET name == RelayRow(r).name \o "->" \o ProxyRow(r).name
                    \o "(" \o ProxyRow(r).node_type \o ")"
    IN IF ProxyRow(r).enlarge_scale > DecimalOne
       THEN name \o "-" \o DecimalStr(ProxyRow(r).enlarge_scale) \o Bei
       ELSE name

\* RelayRule.remark (a property: evaluated on every read).
RelayRule_remark(r) ==
    LET name == RelayRow(r).name \o "->" \o ProxyRow(r).name
                    \o "(" \o ProxyRow(r).node_type \o ")"
    IN IF ProxyRow(r).enlarge_scale # DecimalOne
       THEN name \o "-" \o DecimalStr(ProxyRow(r).enlarge_scale) \o Bei
       ELSE name

SetRelayEnable(r) ==
    /\ relay_nodes' = [relay_nodes EXCEPT ![r].enable = ~@]
    /\ ResetReads
    /\ UNCHANGED <<catalogVars, relay_rules, liveVars, trafficVars>>

SetRelayName(r, nm) ==
    /\ relay_nodes[r].name # nm
    /\ relay_nodes' = [relay_nodes EXCEPT ![r].name = nm]
    /\ ResetReads
    /\ UNCHANGED <<catalogVars, relay_rules, liveVars, trafficVars>>

SetNodeName(n, nm) ==
    /\ proxy_nodes[n].name # nm
    /\ proxy_nodes' = [proxy_nodes EXCEPT ![n].name = nm]
    /\ ResetReads
    /\ UNCHANGED <<ss_configs, users, relayVars, liveVars, trafficVars>>

SetNodeScale(n, d) ==
    /\ proxy_nodes[n].enlarge_scale # d
    /\ proxy_nodes' = [proxy_nodes EXCEPT ![n].enlarge_scale = d]
    /\ ResetReads
    /\ UNCHANGED <<ss_configs, users, relayVars, liveVars, trafficVars>>

ReadRuleEnable(r) ==
    /\ rule_read' = [op |-> "enable", rule |-> r, value |-> RelayRule_enable(r)]
    /\ UNCHANGED <<catalogVars, relayVars, liveVars, trafficVars, proxy_configs, online_query>>

ReadRuleRemark(r) ==
    /\ rule_read' = [op |-> "remark", rule |-> r, value |-> RelayRule_remark(r)]
    /\ UNCHANGED <<catalogVars, relayVars, liveVars, trafficVars, proxy_configs, online_query>>

\* ------------------------------------------------------------------------
\* NodeOnlineLog
\* ------------------------------------------------------------------------
\* ProxyNode.get_active_nodes: the enabled nodes, ordered by sequence (= id).
RECURSIVE NodesInOrder(_)
NodesInOrder(ids) ==
    IF ids = {} THEN <<>>
    ELSE LET i == CHOOSE x \in ids : \A y \in ids : x <= y
         IN <<i>> \o NodesInOrder(ids \ {i})

get_active_nodes == SelectSeq(NodesInOrder(NodeIds), LAMBDA n : proxy_nodes[n].enable)

LogsOf(n) == {online_logs[i] : i \in {j \in 1..Len(online_logs) : online_logs[j].proxy_node = n}}

\* NodeOnlineLog.get_latest_log: filter(proxy_node).order_by("-created_at").first().
\* The set of the values the query can return: rows with equal created_at are
\* returned in an order the database chooses.
get_latest_log(n) ==
    IF LogsOf(n) = {} THEN {None}
    ELSE {Some(l) : l \in {m \in LogsOf(n) : \A o \in LogsOf(n) : o.created_at <= m.created_at}}

\* A window that includes its far end.
online_le(log, t) == t - NODE_TIME_OUT <= log.created_at

\* NodeOnlineLog.online, with the clock reading t.
online(log, t) == t - NODE_TIME_OUT < log.created_at

\* model_to_dict(log): the editable fields (created_at is set on insert).
model_to_dict(log) ==
    [id |-> log.id, proxy_node |-> log.proxy_node,
     online_user_count |-> log.online_user_count,
     tcp_connections_count |-> log.tcp_connections_count]

\* Line 278: the initial value of data.
DefaultInfo == [online |-> FALSE, online_user_count |-> 0, tcp_connections_count |-> 0]

\* An info that is filled from any latest row, fresh or not.
get_latest_online_log_info_any(log, t1, t2) ==
    IF log # None
    THEN [online |-> online(log[1], t2)] @@ model_to_dict(log[1])
    ELSE DefaultInfo

\* NodeOnlineLog.get_latest_online_log_info for the row get_latest_log returned;
\* log.online is evaluated on line 280 with the clock reading t1 and again on
\* line 281 with the clock reading t2.
get_latest_online_log_info(log, t1, t2) ==
    IF log # None /\ online(log[1], t1)
    THEN [online |-> online(log[1], t2)] @@ model_to_dict(log[1])
    ELSE DefaultInfo

\* NodeOnlineLog.get_all_node_online_user_count, latest[n] being the row
\* get_latest_log returned for node n.
RECURSIVE online_user_count_loop(_, _, _)
online_user_count_loop(nodes, latest, count) ==
    IF nodes = <<>> THEN count
    ELSE LET log == latest[Head(nodes)]
         IN online_user_count_loop(Tail(nodes), latest,
                IF log # None THEN count + log[1].online_user_count ELSE count)

get_all_node_online_user_count(latest) == online_user_count_loop(get_active_nodes, latest, 0)

Tick ==
    /\ now < MaxTime
    /\ now' = now + 1
    /\ ResetReads
    /\ UNCHANGED <<catalogVars, relayVars, online_logs, trafficVars>>

\* A heartbeat report is stored, stamped with the time of receipt.
IngestOnlineLog(n, cnt, tcp) ==
    /\ Len(online_logs) < MaxLogs
    /\ online_logs' = Append(online_logs,
           [id |-> Len(online_logs) + 1, proxy_node |-> n, online_user_count |-> cnt,
            tcp_connections_count |-> tcp, created_at |-> now])
    /\ ResetReads
    /\ UNCHANGED <<catalogVars, relayVars, now, trafficVars>>

\* ProxyNode.online_info of a freshly loaded node.
GetLatestOnlineLogInfo(n) ==
    \E log \in get_latest_log(n) :
    \E t2 \in {t \in {now, now + 1} : t <= MaxTime} :
        /\ (t2 # now) => (log # None /\ online(log[1], now))
        /\ now' = t2
        /\ online_query' = [op |-> "info", node |-> n, log |-> log, at |-> now,
                            outcome |-> get_latest_online_log_info(log, now, t2)]
        /\ UNCHANGED <<catalogVars, relayVars, online_logs, trafficVars, proxy_configs, rule_read>>

GetAllNodeOnlineUserCount ==
    \E latest \in [NodeIds -> UNION {get_latest_log(n) : n \in NodeIds}] :
        /\ \A n \in NodeIds : latest[n] \in get_latest_log(n)
        /\ online_query' = [op |-> "count", latest |-> latest,
                            outcome |-> get_all_node_online_user_count(latest)]
        /\ UNCHANGED <<catalogVars, relayVars, liveVars, trafficVars, proxy_configs, rule_read>>

\* ------------------------------------------------------------------------
\* UserTrafficLog
\* ------------------------------------------------------------------------
TrafficRowsOf(u, n) ==
    SelectSeq(traffic_logs, LAMBDA row : row.user = u /\ row.proxy_node = n)

RECURSIVE SumUpload(_)
SumUpload(rows) == IF rows = <<>> THEN 0 ELSE Head(rows).upload_traffic + SumUpload(Tail(rows))
RECURSIVE SumDownload(_)
SumDownload(rows) == IF rows = <<>> THEN 0 ELSE Head(rows).download_traffic + SumDownload(Tail(rows))

\* The running totals of a (user, node) pair: the sums over its rows.
UploadTotal(u, n) == SumUpload(TrafficRowsOf(u, n))
DownloadTotal(u, n) == SumDownload(TrafficRowsOf(u, n))

\* A write that replaces the newest row instead of adding one.
InsertTrafficLog_overwrite(logs, report) ==
    IF logs = <<>> THEN <<report>>
    ELSE Append(SubSeq(logs, 1, Len(logs) - 1), report)

\* The insert of one UserTrafficLog row.
InsertTrafficLog(logs, report) == Append(logs, report)

\* Node c's agent receives a traffic delta of user u to report.
BeginReport(c, u, up, down) ==
    /\ callers[c] = None
    /\ Len(traffic_logs) + Cardinality({d \in Callers : callers[d] # None}) < MaxRows
    /\ callers' = [callers EXCEPT ![c] = Some([user |-> u, proxy_node |-> c,
                                             upload_traffic |-> up, download_traffic |-> down])]
    /\ UNCHANGED <<catalogVars, relayVars, liveVars, readVars, traffic_logs, ingested>>

\* The report of caller c is written to the log.
CommitReport(c) ==
    /\ callers[c] # None
    /\ LET report == callers[c][1]
           key == <<report.user, report.proxy_node>>
       IN /\ traffic_logs' = InsertTrafficLog(traffic_logs, report)
          /\ ingested' = [ingested EXCEPT
                 ![key] = [upload |-> @.upload + report.upload_traffic,
                           download |-> @.download + report.download_traffic]]
    /\ callers' = [callers EXCEPT ![c] = None]
    /\ UNCHANGED <<catalogVars, relayVars, liveVars, readVars>>

\* ------------------------------------------------------------------------
\* Specifications
\* ------------------------------------------------------------------------
InitCatalog ==
    /\ proxy_nodes = [n \in NodeIds |->
           [name |-> "a", enable |-> TRUE,
            node_type |-> IF n \in ConfigNodes THEN NODE_TYPE_SS ELSE NODE_TYPE_VLESS,
            level |-> 0, enlarge_scale |-> DecimalOne]]
    /\ ss_configs = [n \in NodeIds |->
           IF n \in ConfigNodes
           THEN Some([method |-> DEFAULT_METHOD, multi_user_port |-> None]) ELSE None]
    /\ users = [u \in UserIds |->
           [id |-> u, level |-> u - 1, ss_port |-> 2000 + u, ss_password |-> "pw" \o ToString(u),
            total_traffic |-> Quota, upload_traffic |-> 0, download_traffic |-> 0]]

InitRelay ==
    /\ relay_nodes = [r \in RelayIds |-> [name |-> "a", enable |-> TRUE]]
    /\ relay_rules = (1 :> [relay_node |-> 1, proxy_node |-> 1]
                      @@ 2 :> [relay_node |-> 2, proxy_node |-> 1]
                      @@ 3 :> [relay_node |-> 1, proxy_node |-> 2])

InitLive ==
    /\ now = 0
    /\ online_logs = <<>>

InitTraffic ==
    /\ traffic_logs = <<>>
    /\ callers = [c \in Callers |-> None]
    /\ ingested = [k \in UserIds \X NodeIds |-> [upload |-> 0, download |-> 0]]

Init ==
    /\ InitCatalog
    /\ InitRelay
    /\ InitLive
    /\ InitTraffic
    /\ proxy_configs = NoCall
    /\ rule_read = NoCall
    /\ online_query = NoCall

NextConfig ==
    \/ \E n \in NodeIds : SetNodeEnable(n)
    \/ \E n \in ConfigNodes, l \in 0..MaxLevel : SetNodeLevel(n, l)
    \/ \E n \in ConfigNodes, t \in NODE_CHOICES : SetNodeType(n, t)
    \/ \E n \in ConfigNodes, p \in MultiUserPorts : SaveSSConfig(n, p)
    \/ \E n \in ConfigNodes : DeleteSSConfig(n)
    \/ \E u \in UserIds, d \in TrafficSteps : UserTraffic(u, d[1], d[2])
    \/ \E n \in NodeIds : GetProxyConfigs(n)

NextRelay ==
    \/ \E n \in NodeIds : SetNodeEnable(n)
    \/ \E r \in RelayIds : SetRelayEnable(r)
    \/ \E r \in RelayIds, nm \in Names : SetRelayName(r, nm)
    \/ \E n \in NodeIds, nm \in Names : SetNodeName(n, nm)
    \/ \E n \in NodeIds, d \in Scales : SetNodeScale(n, d)
    \/ \E r \in RuleIds : ReadRuleEnable(r)
    \/ \E r \in RuleIds : ReadRuleRemark(r)

NextLive ==
    \/ Tick
    \/ \E n \in NodeIds : SetNodeEnable(n)
    \/ \E n \in NodeIds, cnt \in 1..MaxCount : IngestOnlineLog(n, cnt, cnt + 1)
    \/ \E n \in NodeIds : GetLatestOnlineLogInfo(n)
    \/ GetAllNodeOnlineUserCount

NextTraffic ==
    \/ \E c \in Callers, u \in UserIds, up \in 0..MaxDelta, down \in 0..MaxDelta :
           BeginReport(c, u, up, down)
    \/ \E c \in Callers : CommitReport(c)

Next == NextConfig \/ NextRelay \/ NextLive \/ NextTraffic

Spec == Init /\ [][Next]_vars
SpecConfig == Init /\ [][NextConfig]_vars
SpecRelay == Init /\ [][NextRelay]_vars
SpecLive == Init /\ [][NextLive]_vars
SpecTraffic == Init /\ [][NextTraffic]_vars

\* ------------------------------------------------------------------------
\* Claims about config generation (checked under SpecConfig)
\* ------------------------------------------------------------------------
ConfigCalled == proxy_configs.op = "get_proxy_configs"
CalledNode == proxy_nodes[proxy_configs.node]
CalledSS == ConfigCalled /\ CalledNode.node_type = NODE_TYPE_SS
ConfigReturned == CalledSS /\ proxy_configs.outcome.raised = ""
Entries == proxy_configs.outcome.value.users
Used(u) == users[u].upload_traffic + users[u].download_traffic
Eligible(n) == {u \in UserIds : users[u].level >= proxy_nodes[n].level}
EntriesOf(u) == {i \in 1..Len(Entries) : Entries[i].user_id = u}

\* C1: every entry emitted for an ss node has enable = (node.enable and
\* total_traffic > upload_traffic + download_traffic) of its user; used = total
\* gives enable = false, and a disabled node gives enable = false throughout.
C1_EnableFlag ==
    ConfigReturned =>
        \A i \in 1..Len(Entries) :
            LET u == Entries[i].user_id
            IN /\ Entries[i].enable = (CalledNode.enable /\ users[u].total_traffic > Used(u))
               /\ (Used(u) = users[u].total_traffic) => ~Entries[i].enable
               /\ ~CalledNode.enable => ~Entries[i].enable

C1_Witness ==
    /\ ConfigReturned
    /\ CalledNode.enable
    /\ \E i \in 1..Len(Entries) : Entries[i].enable
    /\ \E i \in 1..Len(Entries) :
           /\ Used(Entries[i].user_id) = users[Entries[i].user_id].total_traffic
           /\ ~Entries[i].enable

\* C2: for an ss node with an SSConfig, config generation completes, and every
\* eligible user gets an entry that carries the shared multi_user_port when
\* one is declared and the user's own ss_port when multi_user_port is None.
C2_PortAssignment ==
    (CalledSS /\ ss_configs[proxy_configs.node] # None) =>
        /\ proxy_configs.outcome.raised = ""
        /\ \A u \in Eligible(proxy_configs.node) :
               \E i \in 1..Len(Entries) :
                   /\ Entries[i].user_id = u
                   /\ Entries[i].port =
                          IF ss_configs[proxy_configs.node][1].multi_user_port # None
                          THEN ss_configs[proxy_configs.node][1].multi_user_port[1]
                          ELSE users[u].ss_port

\* C3 as stated: the result for a vless or trojan node is an explicit
\* "unsupported" result, never a successful empty value.
C3_ExplicitUnsupported ==
    (ConfigCalled /\ CalledNode.node_type # NODE_TYPE_SS) =>
        (proxy_configs.outcome.raised # "" \/ proxy_configs.outcome.value # <<>>)

\* C3 as amended: the result for a vless or trojan node is the empty dict {},
\* returned without an exception, and it differs from the result for every ss
\* node that has no eligible user.
C3_EmptyDictDistinct ==
    (ConfigCalled /\ CalledNode.node_type # NODE_TYPE_SS) =>
        /\ proxy_configs.outcome.raised = ""
        /\ DOMAIN proxy_configs.outcome.value = {}
        /\ \A m \in NodeIds :
               (proxy_nodes[m].node_type = NODE_TYPE_SS /\ Eligible(m) = {}) =>
                   get_proxy_configs(m) # proxy_configs.outcome

C3_Witness ==
    /\ ConfigCalled
    /\ CalledNode.node_type # NODE_TYPE_SS
    /\ proxy_configs.outcome = Returned(<<>>)
    /\ \E m \in NodeIds :
           /\ proxy_nodes[m].node_type = NODE_TYPE_SS
           /\ Eligible(m) = {}
           /\ get_proxy_configs(m) = Returned([users |-> <<>>])

Denied(n, u) == ~proxy_nodes[n].enable \/ Used(u) >= users[u].total_traffic

\* C4 as stated (its part about the entries): the config returned for an ss
\* node has no entry for an eligible user when the node is disabled or the
\* user's upload+download has reached total_traffic.
C4_NoEntryForDenied ==
    ConfigReturned =>
        \A u \in Eligible(proxy_configs.node) :
            Denied(proxy_configs.node, u) => EntriesOf(u) = {}

\* C4 as amended: the config returned for an ss node has exactly one entry for
\* every user with level >= node.level and none for the other users; the entry
\* of a user on a disabled node, or whose upload+download has reached
\* total_traffic, is present with enable = false.
C4_EntryKeptDisabled ==
    ConfigReturned =>
        /\ \A u \in Eligible(proxy_configs.node) :
               /\ Cardinality(EntriesOf(u)) = 1
               /\ Denied(proxy_configs.node, u) =>
                      \A i \in EntriesOf(u) : ~Entries[i].enable
        /\ \A u \in UserIds \ Eligible(proxy_configs.node) : EntriesOf(u) = {}

C4_Witness ==
    /\ ConfigReturned
    /\ ~CalledNode.enable
    /\ Eligible(proxy_configs.node) = UserIds
    /\ Len(Entries) = Cardinality(UserIds)
    /\ \E u \in UserIds : Used(u) < users[u].total_traffic
    /\ \E u \in UserIds : Used(u) > users[u].total_traffic
    /\ \A i \in 1..Len(Entries) : ~Entries[i].enable

\* ------------------------------------------------------------------------
\* Claims about relay rules (checked under SpecRelay)
\* ------------------------------------------------------------------------
RelayOf(r) == relay_rules[r].relay_node
ProxyOf(r) == relay_rules[r].proxy_node

\* C5: a rule's enable is true iff its relay node and its proxy node are both
\* enabled, for the current flags after any sequence of toggles, both as the
\* property's value and as the value a read returned.
C5_EnableIsConjunction ==
    /\ \A r \in RuleIds :
           /\ RelayRule_enable(r) <=>
                  (relay_nodes[RelayOf(r)].enable = TRUE /\ proxy_nodes[ProxyOf(r)].enable = TRUE)
           /\ ~proxy_nodes[ProxyOf(r)].enable => ~RelayRule_enable(r)
           /\ ~relay_nodes[RelayOf(r)].enable => ~RelayRule_enable(r)
    /\ rule_read.op = "enable" =>
           (rule_read.value <=>
                (relay_nodes[RelayOf(rule_read.rule)].enable
                     /\ proxy_nodes[ProxyOf(rule_read.rule)].enable))

C5_Witness ==
    /\ rule_read.op = "enable"
    /\ relay_nodes[RelayOf(rule_read.rule)].enable
    /\ ~proxy_nodes[ProxyOf(rule_read.rule)].enable
    /\ rule_read.value = FALSE
    /\ \E r \in RuleIds : RelayRule_enable(r)

ScaleText == (5 :> "0.5" @@ 10 :> "1.0" @@ 15 :> "1.5")

\* C10: a read of remark returns "<relay name>-><proxy name>(<proxy type>)"
\* built from the current rows, followed by the multiplier suffix iff the
\* proxy node's enlarge_scale is not 1.0.
C10_RemarkLabel ==
    rule_read.op = "remark" =>
        LET relay == relay_nodes[RelayOf(rule_read.rule)]
            proxy == proxy_nodes[ProxyOf(rule_read.rule)]
            base == relay.name \o "->" \o proxy.name \o "(" \o proxy.node_type \o ")"
        IN /\ (proxy.enlarge_scale = 10) => rule_read.value = base
           /\ (proxy.enlarge_scale # 10) =>
                  rule_read.value = base \o "-" \o ScaleText[proxy.enlarge_scale] \o Bei
           /\ (rule_read.value # base) <=> (proxy.enlarge_scale # 10)

C10_Witness ==
    /\ rule_read.op = "remark"
    /\ rule_read.value = "b->a(vless)-0.5bei"
    /\ \E r \in RuleIds : RelayRule_remark(r) = "a->b(ss)"

\* ------------------------------------------------------------------------
\* Claims about the heartbeat log (checked under SpecLive)
\* ------------------------------------------------------------------------
InfoQueried == online_query.op = "info"
CountQueried == online_query.op = "count"
Fresh(log) == log # None /\ now - NODE_TIME_OUT < log[1].created_at

\* C6: a node is online iff it has a sample and its latest sample's created_at
\* is within NODE_TIME_OUT of the current time: it is online right after a
\* sample stamped with the current time is stored, and offline once the clock
\* is NODE_TIME_OUT or more past its latest sample, with no other event.
C6_OnlineWindow ==
    /\ InfoQueried => (online_query.outcome.online <=> Fresh(online_query.log))
    /\ \A n \in NodeIds : \A log \in get_latest_log(n) :
           /\ (\E l \in LogsOf(n) : l.created_at = now) =>
                  (log # None /\ online(log[1], now))
           /\ (log # None /\ now >= log[1].created_at + NODE_TIME_OUT) =>
                  ~online(log[1], now)
           /\ (log # None /\ now < log[1].created_at + NODE_TIME_OUT) =>
                  online(log[1], now)

C6_Witness ==
    /\ InfoQueried
    /\ online_query.log # None
    /\ online_query.log[1].created_at + NODE_TIME_OUT = now
    /\ online_query.outcome.online = FALSE
    /\ \E n \in NodeIds : \E log \in get_latest_log(n) :
           log # None /\ log[1].created_at = now /\ online(log[1], now)

RECURSIVE SumOver(_, _)
SumOver(f, S) ==
    IF S = {} THEN 0
    ELSE LET x == CHOOSE y \in S : TRUE IN f[x] + SumOver(f, S \ {x})

\* C7: the fleet count is the sum of online_user_count over the enabled nodes
\* whose latest sample is fresh; a node without a sample, a disabled node and
\* a node whose latest sample is stale contribute 0.
C7_FreshOnlySum ==
    CountQueried =>
        online_query.outcome =
            SumOver([n \in NodeIds |->
                        IF proxy_nodes[n].enable /\ Fresh(online_query.latest[n])
                        THEN online_query.latest[n][1].online_user_count ELSE 0],
                    NodeIds)

\* C8 as stated: the info of a node that never reported differs from the info
\* of a node whose latest sample exists but is stale.
C8_NoSamplesDistinct ==
    (InfoQueried /\ online_query.log = None) =>
        \A m \in NodeIds : \A log \in get_latest_log(m) :
            (log # None /\ ~online(log[1], now)) =>
                get_latest_online_log_info(log, now, now) # online_query.outcome

\* C8 as amended: the info of a node that never reported and the info of a
\* node whose latest sample is stale when the query starts are the same
\* default info (online false, both counts 0).
C8_SameDefaultInfo ==
    /\ InfoQueried =>
           ((online_query.log = None \/ ~online(online_query.log[1], online_query.at)) =>
                online_query.outcome = DefaultInfo)
    /\ \A m \in NodeIds : \A log \in get_latest_log(m) :
           (log = None \/ ~online(log[1], now)) =>
               get_latest_online_log_info(log, now, now) =
                   [online |-> FALSE, online_user_count |-> 0, tcp_connections_count |-> 0]

C8_Witness ==
    /\ InfoQueried
    /\ online_query.log = None
    /\ online_query.outcome = DefaultInfo
    /\ \E m \in NodeIds : \E log \in get_latest_log(m) :
           /\ log # None
           /\ ~online(log[1], now)
           /\ get_latest_online_log_info(log, now, now) = online_query.outcome

\* ------------------------------------------------------------------------
\* Claims about the traffic log (checked under SpecTraffic)
\* ------------------------------------------------------------------------
TotalsAreSums ==
    \A u \in UserIds, n \in NodeIds :
        /\ UploadTotal(u, n) = ingested[<<u, n>>].upload
        /\ DownloadTotal(u, n) = ingested[<<u, n>>].download

AppendOnly ==
    /\ Len(traffic_logs') >= Len(traffic_logs)
    /\ \A i \in 1..Len(traffic_logs) : traffic_logs'[i] = traffic_logs[i]
    /\ \A u \in UserIds, n \in NodeIds :
           /\ UploadTotal(u, n)' >= UploadTotal(u, n)
           /\ DownloadTotal(u, n)' >= DownloadTotal(u, n)

\* C9: the running totals of every (user, node) pair equal the sums of the
\* upload and download deltas ingested for that pair, under every interleaving
\* of the callers; rows are only appended, never changed, and the totals never
\* decrease.
C9_TotalsAccumulate == []TotalsAreSums /\ [][AppendOnly]_vars

C9_Witness ==
    /\ Len(traffic_logs) >= 1
    /\ \E c \in Callers :
           /\ callers[c] # None
           /\ callers[c][1].proxy_node # traffic_logs[1].proxy_node
           /\ callers[c][1].user = traffic_logs[1].user
    /\ \E u \in UserIds, n \in NodeIds : UploadTotal(u, n) > 0 /\ DownloadTotal(u, n) > 0
    /\ TotalsAreSums

====
